---- MODULE Spec2Model ----
(***************************************************************************)
(* A model of the weather agent of main.py: the three tool functions       *)
(* (get_lat_lng, get_weather, get_aqi), the dependency bag, the entry      *)
(* point main with its scoped HTTP client, and the orchestrating agent     *)
(* (weather_agent, retries=2) that invokes the tools.                      *)
(*                                                                         *)
(* Coordinates and temperatures are fixed-point numbers in tenths          *)
(* (51.1 is 511, -0.1 is -1).  JSON objects are records, JSON arrays are   *)
(* sequences, Python's None is the string "None".                          *)
(***************************************************************************)
EXTENDS Integers, Sequences, FiniteSets, TLC

VARIABLES
    env,        \* the process environment read by os.getenv
    pc,         \* position of main
    client,     \* the AsyncClient of main's `async with`
    acquired,   \* how many times an AsyncClient was opened
    deps,       \* the Deps dependency bag handed to weather_agent.run
    runs,       \* how many times weather_agent.run was invoked
    agent,      \* position of the orchestrating agent's run
    cause,      \* why the agent run aborted
    retry,      \* per tool: consecutive retryable failures (current_retry)
    reinvoked,  \* per tool: invocations made in answer to a retry signal
    call,       \* the tool call in flight
    calls,      \* tool calls started in this run
    sent,       \* HTTP requests issued in this run
    misuse,     \* a request was issued on a client that was not open
    printed     \* how many times main printed the structured result

vars == <<env, pc, client, acquired, deps, runs, agent, cause, retry,
          reinvoked, call, calls, sent, misuse, printed>>

----------------------------------------------------------------------------
(* Bounds of the model *)

MaxCalls == 4

----------------------------------------------------------------------------
(* Values *)

None == "None"

Tools == {"get_lat_lng", "get_weather", "get_aqi"}

Keys == {None, "k"}

EnvNames == {"LOCATION_API_KEY", "WAETHER_API_KEY", "AQI_API_KEY"}

\* os.getenv(name): the variable's value, or None when it is not set
getenv(name) == env[name]

\* inputs the agent may hand to get_lat_lng
Locations == {"", "Paris", "Tokyo"}

\* coordinates the agent may hand to get_weather and get_aqi (tenths)
CoordArgs == {[lat |-> 511, lng |-> -1], [lat |-> 489, lng |-> 23],
              [lat |-> 357, lng |-> 1397]}

\* HTTP status codes a service may answer with
Statuses == {200, 201, 301, 404, 500}

\* httpx Response.is_success, the test of raise_for_status
is_success(status) == 200 <= status /\ status <= 299

EmptyDict == [k \in {} |-> 0]


\* Python truthiness of a JSON array and of a JSON object
truthy_list(data) == Len(data) > 0
truthy_dict(data) == DOMAIN data # {}

\* what a tool invocation ends with: a returned dict, or a raised exception
Return(v) == [kind |-> "return", value |-> v]
Raise(exc, msg) == [kind |-> exc, message |-> msg]
Pending == [kind |-> "pending"]

\* ModelRetry is the one exception the agent answers with a retry prompt
Exceptions == {"ModelRetry", "HTTPStatusError", "JSONDecodeError", "KeyError"}

----------------------------------------------------------------------------
(* get_lat_lng *)

Paris == [lat |-> 489, lon |-> 23]
Tokyo == [lat |-> 357, lon |-> 1397]
NoCoords == [display_name |-> "x"]

\* responses of geocode.maps.co/search: a status and, when 2xx, a body that
\* either decodes to a list of candidates or is not JSON
GeoBodies == {<< >>, <<Paris>>, <<Paris, Tokyo>>, <<Tokyo, Paris>>,
              <<NoCoords, Paris>>}

GeoResponses ==
    {[status |-> s, decodable |-> TRUE, body |-> << >>] :
        s \in {x \in Statuses : ~is_success(x)}}
    \cup {[status |-> s, decodable |-> TRUE, body |-> b] :
        s \in {x \in Statuses : is_success(x)}, b \in GeoBodies}
    \cup {[status |-> 200, decodable |-> FALSE, body |-> << >>]}

get_lat_lng_mock_swapped == [lat |-> -1, lng |-> 511]

get_lat_lng_mock == [lat |-> 511, lng |-> -1]

get_lat_lng_parse_last(data) ==
    IF truthy_list(data)
    THEN IF {"lat", "lon"} \subseteq DOMAIN data[Len(data)]
         THEN Return([lat |-> data[Len(data)].lat,
                      lng |-> data[Len(data)].lon])
         ELSE Raise("KeyError", "lat")
    ELSE Raise("ModelRetry", "Could not find the location")

\* data[0][k]: Python indexes from 0, a sequence from 1
get_lat_lng_parse(data) ==
    IF truthy_list(data)
    THEN IF {"lat", "lon"} \subseteq DOMAIN data[1]
         THEN Return([lat |-> data[1].lat, lng |-> data[1].lon])
         ELSE Raise("KeyError", "lat")
    ELSE Raise("ModelRetry", "Could not find the location")

\* everything get_lat_lng does once the request has been answered
get_lat_lng_response(r) ==
    IF ~is_success(r.status) THEN Raise("HTTPStatusError", "status")
    ELSE IF ~r.decodable THEN Raise("JSONDecodeError", "body")
    ELSE get_lat_lng_parse(r.body)

----------------------------------------------------------------------------
(* get_weather *)

code_lookup_swapped ==
    (1000 :> "Clear, Sunny") @@ (1100 :> "Mostly Clear")
    @@ (1101 :> "Partly Cloudy") @@ (1102 :> "Mostly Cloudy")
    @@ (1001 :> "Cloudy") @@ (2000 :> "Fog") @@ (2100 :> "Light Fog")
    @@ (4000 :> "Drizzle") @@ (4001 :> "Rain") @@ (4200 :> "Light Rain")
    @@ (4201 :> "Heavy Rain") @@ (5000 :> "Snow") @@ (5001 :> "Flurries")
    @@ (5100 :> "Light Snow") @@ (5101 :> "Heavy Snow")
    @@ (6000 :> "Freezing Drizzle") @@ (6001 :> "Freezing Rain")
    @@ (6200 :> "Light Freezing Rain") @@ (6201 :> "Heavy Freezing Rain")
    @@ (7000 :> "Ice Pellets") @@ (7101 :> "Light Ice Pellets")
    @@ (7102 :> "Heavy Ice Pellets") @@ (8000 :> "Thunderstorm")

code_lookup ==
    (1000 :> "Clear, Sunny") @@ (1100 :> "Mostly Clear")
    @@ (1101 :> "Partly Cloudy") @@ (1102 :> "Mostly Cloudy")
    @@ (1001 :> "Cloudy") @@ (2000 :> "Fog") @@ (2100 :> "Light Fog")
    @@ (4000 :> "Drizzle") @@ (4001 :> "Rain") @@ (4200 :> "Light Rain")
    @@ (4201 :> "Heavy Rain") @@ (5000 :> "Snow") @@ (5001 :> "Flurries")
    @@ (5100 :> "Light Snow") @@ (5101 :> "Heavy Snow")
    @@ (6000 :> "Freezing Drizzle") @@ (6001 :> "Freezing Rain")
    @@ (6200 :> "Light Freezing Rain") @@ (6201 :> "Heavy Freezing Rain")
    @@ (7000 :> "Ice Pellets") @@ (7101 :> "Heavy Ice Pellets")
    @@ (7102 :> "Light Ice Pellets") @@ (8000 :> "Thunderstorm")

\* code_lookup.get(code, 'Unknown')
code_lookup_get(code) ==
    IF code \in DOMAIN code_lookup THEN code_lookup[code] ELSE "Unknown"

\* f'{x:0.0f}' of a number given in tenths: the nearest integer, a tie to
\* the even one, and the sign kept when a negative number rounds to zero
format_0f(tenths) ==
    LET a == IF tenths < 0 THEN -tenths ELSE tenths
        q == a \div 10
        r == a % 10
        n == IF r > 5 \/ (r = 5 /\ q % 2 = 1) THEN q + 1 ELSE q
    IN  (IF tenths < 0 THEN "-" ELSE "") \o ToString(n)

\* weather codes a response may carry: the codes of the table and others
WeatherCodes ==
    {1000, 1100, 1101, 1102, 1001, 2000, 2100, 4000, 4001, 4200, 4201, 5000,
     5001, 5100, 5101, 6000, 6001, 6200, 6201, 7000, 7101, 7102, 8000}
    \cup {0, 1002, 3000, 7100, 9999}

\* apparent temperatures a response may carry (tenths of a degree)
Temperatures == {-15, -4, 5, 25, 214}

WeatherBodies ==
    {[data |-> [values |-> [temperatureApparent |-> t, weatherCode |-> c]]] :
        t \in Temperatures, c \in WeatherCodes}
    \cup {[message |-> "x"], EmptyDict}

WeatherResponses ==
    {[status |-> s, decodable |-> TRUE, body |-> EmptyDict] :
        s \in {x \in Statuses : ~is_success(x)}}
    \cup {[status |-> s, decodable |-> TRUE, body |-> b] :
        s \in {x \in Statuses : is_success(x)}, b \in WeatherBodies}
    \cup {[status |-> 200, decodable |-> FALSE, body |-> EmptyDict]}

get_weather_mock == [temperature |-> "21 °C"]

get_weather_parse_no_description(data) ==
    IF "data" \in DOMAIN data
    THEN LET values == data.data.values
         IN  Return([temperature |->
                         format_0f(values.temperatureApparent) \o "°C"])
    ELSE Raise("KeyError", "data")

get_weather_parse(data) ==
    IF "data" \in DOMAIN data
    THEN LET values == data.data.values
         IN  Return([temperature |->
                         format_0f(values.temperatureApparent) \o "°C",
                     description |-> code_lookup_get(values.weatherCode)])
    ELSE Raise("KeyError", "data")

get_weather_response(r) ==
    IF ~is_success(r.status) THEN Raise("HTTPStatusError", "status")
    ELSE IF ~r.decodable THEN Raise("JSONDecodeError", "body")
    ELSE get_weather_parse(r.body)

----------------------------------------------------------------------------
(* get_aqi *)

AqiBodies == {EmptyDict, [data |-> [aqi |-> 42]], [data |-> [aqi |-> 160]],
              [data |-> [idx |-> 7]], [status |-> "error"]}

AqiResponses ==
    {[status |-> s, decodable |-> TRUE, body |-> EmptyDict] :
        s \in {x \in Statuses : ~is_success(x)}}
    \cup {[status |-> s, decodable |-> TRUE, body |-> b] :
        s \in {x \in Statuses : is_success(x)}, b \in AqiBodies}
    \cup {[status |-> 200, decodable |-> FALSE, body |-> EmptyDict]}

get_aqi_mock == [AirQualityIndex |-> 10000]

get_aqi_parse_no_retry(data) ==
    IF truthy_dict(data)
    THEN IF "data" \in DOMAIN data /\ "aqi" \in DOMAIN data.data
         THEN Return([AirQualityIndex |-> data.data.aqi])
         ELSE Raise("KeyError", "aqi")
    ELSE Return([AirQualityIndex |-> 10000])

get_aqi_parse(data) ==
    IF truthy_dict(data)
    THEN IF "data" \in DOMAIN data /\ "aqi" \in DOMAIN data.data
         THEN Return([AirQualityIndex |-> data.data.aqi])
         ELSE Raise("KeyError", "aqi")
    ELSE Raise("ModelRetry", "Could not find the location")

get_aqi_response_retry_on_status(r) ==
    IF ~is_success(r.status)
    THEN Raise("ModelRetry", "Could not find the location")
    ELSE IF ~r.decodable THEN Raise("JSONDecodeError", "body")
    ELSE get_aqi_parse(r.body)

get_aqi_response(r) ==
    IF ~is_success(r.status) THEN Raise("HTTPStatusError", "status")
    ELSE IF ~r.decodable THEN Raise("JSONDecodeError", "body")
    ELSE get_aqi_parse(r.body)

----------------------------------------------------------------------------
(* The state *)

retries_three == 2 + 1

\* Agent(..., retries=2)
retries == 2

NoResponse == [status |-> 0, decodable |-> TRUE, body |-> EmptyDict]

NoCall == [tool |-> "none", args |-> EmptyDict, state |-> "none",
           requests |-> 0, response |-> NoResponse, outcome |-> Pending]

NoDeps == [client |-> "none", weather_api_key |-> None, geo_api_key |-> None,
           aqi_index_key |-> None]

Init ==
    /\ env \in [EnvNames -> Keys]
    /\ pc = "start"
    /\ client = "none"
    /\ acquired = 0
    /\ deps = NoDeps
    /\ runs = 0
    /\ agent = "idle"
    /\ cause = "none"
    /\ retry = [t \in Tools |-> 0]
    /\ reinvoked = [t \in Tools |-> 0]
    /\ call = NoCall
    /\ calls = 0
    /\ sent = 0
    /\ misuse = FALSE
    /\ printed = 0

----------------------------------------------------------------------------
(* main, up to the await of weather_agent.run *)

\* `async with AsyncClient() as client`, the three os.getenv, Deps(...) and
\* the call of weather_agent.run('', deps=deps)
MainEnter ==
    /\ pc = "start"
    /\ pc' = "run"
    /\ client' = "open"
    /\ acquired' = acquired + 1
    /\ deps' = [client |-> "client",
                weather_api_key |-> getenv("WAETHER_API_KEY"),
                geo_api_key |-> getenv("LOCATION_API_KEY"),
                aqi_index_key |-> getenv("AQI_API_KEY")]
    /\ runs' = runs + 1
    /\ agent' = "thinking"
    /\ UNCHANGED <<env, cause, retry, reinvoked, call, calls, sent, misuse,
                   printed>>

----------------------------------------------------------------------------
(* The agent invoking a tool, and the tool's code up to its await *)

\* the agent's side of starting a tool call
Invoke(t) ==
    /\ pc = "run"
    /\ agent = "thinking"
    /\ calls < MaxCalls
    /\ calls' = calls + 1
    /\ agent' = "tool"
    /\ reinvoked' = [reinvoked EXCEPT ![t] = IF retry[t] > 0 THEN @ + 1 ELSE @]
    /\ UNCHANGED <<env, pc, client, acquired, deps, runs, cause, retry,
                   printed>>

\* a tool returning its placeholder without touching the client
Placeholder(t, a, mock) ==
    /\ call' = [tool |-> t, args |-> a, state |-> "finished", requests |-> 0,
                response |-> NoResponse, outcome |-> Return(mock)]
    /\ UNCHANGED <<sent, misuse>>

\* `await ctx.deps.client.get(...)`: the request goes out, the tool suspends
ClientGet(t, a) ==
    /\ call' = [tool |-> t, args |-> a, state |-> "awaiting", requests |-> 1,
                response |-> NoResponse, outcome |-> Pending]
    /\ sent' = sent + 1
    /\ misuse' = (misuse \/ client # "open")

get_lat_lng_call(location_description) ==
    /\ Invoke("get_lat_lng")
    /\ LET a == [location_description |-> location_description]
       IN  IF deps.geo_api_key = None
           THEN Placeholder("get_lat_lng", a, get_lat_lng_mock)
           ELSE ClientGet("get_lat_lng", a)

get_weather_call(lat, lng) ==
    /\ Invoke("get_weather")
    /\ LET a == [lat |-> lat, lng |-> lng]
       IN  IF deps.weather_api_key = None
           THEN Placeholder("get_weather", a, get_weather_mock)
           ELSE ClientGet("get_weather", a)

get_aqi_call(lat, lng) ==
    /\ Invoke("get_aqi")
    /\ LET a == [lat |-> lat, lng |-> lng]
       IN  IF deps.aqi_index_key = None
           THEN Placeholder("get_aqi", a, get_aqi_mock)
           ELSE ClientGet("get_aqi", a)

----------------------------------------------------------------------------
(* The tool's code from the answer of its request to its return or raise *)

Resume(t, r, outcome) ==
    /\ agent = "tool"
    /\ call.tool = t
    /\ call.state = "awaiting"
    /\ call' = [call EXCEPT !.state = "finished", !.response = r,
                            !.outcome = outcome]
    /\ UNCHANGED <<env, pc, client, acquired, deps, runs, agent, cause, retry,
                   reinvoked, calls, sent, misuse, printed>>

get_lat_lng_resume(r) == Resume("get_lat_lng", r, get_lat_lng_response(r))

get_weather_resume(r) == Resume("get_weather", r, get_weather_response(r))

get_aqi_resume(r) == Resume("get_aqi", r, get_aqi_response(r))

----------------------------------------------------------------------------
(* The agent inspecting what the tool call ended with *)

Inspect(kinds) ==
    /\ agent = "tool"
    /\ call.state = "finished"
    /\ call.outcome.kind \in kinds
    /\ call' = NoCall
    /\ UNCHANGED <<env, pc, client, acquired, deps, runs, calls, sent, misuse,
                   printed>>

\* the tool returned: its result goes back to the model, its retry count
\* starts over
AgentToolReturned ==
    /\ Inspect({"return"})
    /\ retry' = [retry EXCEPT ![call.tool] = 0]
    /\ reinvoked' = [reinvoked EXCEPT ![call.tool] = 0]
    /\ agent' = "thinking"
    /\ UNCHANGED cause

\* the tool raised ModelRetry: a retry prompt goes back to the model unless
\* the tool has used up its retries, which aborts the run
AgentToolRetry ==
    /\ Inspect({"ModelRetry"})
    /\ retry' = [retry EXCEPT ![call.tool] = @ + 1]
    /\ IF retry[call.tool] + 1 > retries
       THEN agent' = "failed" /\ cause' = "retries"
       ELSE agent' = "thinking" /\ UNCHANGED cause
    /\ UNCHANGED reinvoked

\* the tool raised anything else: the exception leaves weather_agent.run
AgentToolFatal ==
    /\ Inspect(Exceptions \ {"ModelRetry"})
    /\ agent' = "failed"
    /\ cause' = call.outcome.kind
    /\ UNCHANGED <<retry, reinvoked>>

\* the model answers with the final List[struct_output]: run returns
AgentFinish ==
    /\ pc = "run"
    /\ agent = "thinking"
    /\ agent' = "done"
    /\ UNCHANGED <<env, pc, client, acquired, deps, runs, cause, retry,
                   reinvoked, call, calls, sent, misuse, printed>>

\* the run aborts for a reason of the agent's own (the model request fails,
\* the final output never validates)
AgentModelError ==
    /\ pc = "run"
    /\ agent = "thinking"
    /\ agent' = "failed"
    /\ cause' = "model"
    /\ UNCHANGED <<env, pc, client, acquired, deps, runs, retry, reinvoked,
                   call, calls, sent, misuse, printed>>

----------------------------------------------------------------------------
(* main, after the await of weather_agent.run *)

run_returned_or_raised == agent \in {"done", "failed"}

\* the statements after `result = await weather_agent.run(...)` are reached
\* only when the await returns a result
run_returned == agent = "done"

aexit_on_success_only(raised) == IF raised THEN "open" ELSE "closed"

\* AsyncClient.__aexit__, run by `async with` however its body is left
aexit(raised) == "closed"

\* debug(result); print('Response:', result.output)
MainPrint ==
    /\ pc = "run"
    /\ run_returned
    /\ printed' = printed + 1
    /\ pc' = "printed"
    /\ UNCHANGED <<env, client, acquired, deps, runs, agent, cause, retry,
                   reinvoked, call, calls, sent, misuse>>

\* the end of the `async with` body: the client is closed, main returns
MainExit ==
    /\ pc = "printed"
    /\ client' = aexit(FALSE)
    /\ pc' = "returned"
    /\ UNCHANGED <<env, acquired, deps, runs, agent, cause, retry, reinvoked,
                   call, calls, sent, misuse, printed>>

\* weather_agent.run raised: the exception leaves the `async with` body,
\* the client is closed, and the exception leaves main
MainRaise ==
    /\ pc = "run"
    /\ agent = "failed"
    /\ client' = aexit(TRUE)
    /\ pc' = "raised"
    /\ UNCHANGED <<env, acquired, deps, runs, agent, cause, retry, reinvoked,
                   call, calls, sent, misuse, printed>>

----------------------------------------------------------------------------

Next ==
    \/ MainEnter
    \/ \E loc \in Locations : get_lat_lng_call(loc)
    \/ \E c \in CoordArgs : get_weather_call(c.lat, c.lng)
    \/ \E c \in CoordArgs : get_aqi_call(c.lat, c.lng)
    \/ \E r \in GeoResponses : get_lat_lng_resume(r)
    \/ \E r \in WeatherResponses : get_weather_resume(r)
    \/ \E r \in AqiResponses : get_aqi_resume(r)
    \/ AgentToolReturned
    \/ AgentToolRetry
    \/ AgentToolFatal
    \/ AgentFinish
    \/ AgentModelError
    \/ MainPrint
    \/ MainExit
    \/ MainRaise

Spec == Init /\ [][Next]_vars

----------------------------------------------------------------------------
(* Vocabulary of the properties *)

Finished(t) == call.tool = t /\ call.state = "finished"

\* the key of the dependency bag that tool t reads
KeyOf(t) ==
    CASE t = "get_lat_lng" -> deps.geo_api_key
      [] t = "get_weather" -> deps.weather_api_key
      [] t = "get_aqi" -> deps.aqi_index_key

\* the fields of each tool's result contract
ContractFields(t) ==
    CASE t = "get_lat_lng" -> {"lat", "lng"}
      [] t = "get_weather" -> {"temperature", "description"}
      [] t = "get_aqi" -> {"AirQualityIndex"}

FullyPopulated(t, outcome) ==
    /\ outcome.kind = "return"
    /\ ContractFields(t) \subseteq DOMAIN outcome.value

\* the request of the finished call was answered 2xx with a JSON body
Answered2xx ==
    /\ call.requests = 1
    /\ is_success(call.response.status)
    /\ call.response.decodable

Terminated == pc \in {"returned", "raised"}

----------------------------------------------------------------------------
(* C1 *)

\* C1 as stated: every finished invocation of get_lat_lng, get_weather or
\* get_aqi has returned a result carrying every field of its contract, or
\* has raised ModelRetry.
C1_Original ==
    \A t \in Tools :
        Finished(t) =>
            \/ FullyPopulated(t, call.outcome)
            \/ call.outcome.kind = "ModelRetry"

\* C1, amended: every finished invocation has returned a result, raised
\* ModelRetry, or raised a fatal exception; a fatal exception is raised only
\* with the key configured, on a non-2xx status (HTTPStatusError) or on a 2xx
\* body that does not decode or lacks the fields the tool reads; and every
\* returned result carries every field of its contract, except the
\* placeholder of get_weather when no weather key is configured, which
\* carries the temperature alone.
C1_Amended ==
    \A t \in Tools :
        Finished(t) =>
            /\ call.outcome.kind \in {"return"} \cup Exceptions
            /\ call.outcome.kind = "return" =>
                \/ FullyPopulated(t, call.outcome)
                \/ /\ t = "get_weather"
                   /\ KeyOf(t) = None
                   /\ DOMAIN call.outcome.value = {"temperature"}
            /\ (call.outcome.kind = "return" /\ KeyOf(t) # None) =>
                   FullyPopulated(t, call.outcome)
            /\ call.outcome.kind \in Exceptions => KeyOf(t) # None
            /\ call.outcome.kind = "HTTPStatusError" <=>
                   (call.requests = 1 /\ ~is_success(call.response.status))
            /\ call.outcome.kind = "JSONDecodeError" =>
                   ~call.response.decodable
            /\ call.outcome.kind = "KeyError" => Answered2xx

\* get_weather, with its key, has returned a temperature and a description
C1_Witness ==
    /\ Finished("get_weather")
    /\ KeyOf("get_weather") # None
    /\ FullyPopulated("get_weather", call.outcome)

----------------------------------------------------------------------------
(* C5 *)

\* C5: a tool whose API key is absent from the dependency bag returns its
\* fixed placeholder whatever its arguments are, without any HTTP request
\* and without an error: get_lat_lng {lat: 51.1, lng: -0.1}, get_weather
\* the temperature '21 °C' and no description, get_aqi the index 10000.
C5_Placeholders ==
    /\ \A t \in Tools :
        (call.tool = t /\ KeyOf(t) = None) =>
            /\ call.state = "finished"
            /\ call.requests = 0
            /\ call.outcome.kind = "return"
    /\ (call.tool = "get_lat_lng" /\ deps.geo_api_key = None) =>
            call.outcome.value = [lat |-> 511, lng |-> -1]
    /\ (call.tool = "get_weather" /\ deps.weather_api_key = None) =>
            /\ call.outcome.value = [temperature |-> "21 °C"]
            /\ "description" \notin DOMAIN call.outcome.value
    /\ (call.tool = "get_aqi" /\ deps.aqi_index_key = None) =>
            call.outcome.value = [AirQualityIndex |-> 10000]
    /\ (\A t \in Tools : KeyOf(t) = None) => sent = 0

\* get_lat_lng, without a key, has answered a query about Tokyo
C5_Witness ==
    /\ Finished("get_lat_lng")
    /\ deps.geo_api_key = None
    /\ call.args.location_description = "Tokyo"
    /\ call.outcome.kind = "return"

----------------------------------------------------------------------------
(* C6 *)

\* C6: with a geocoding key, a 2xx answer whose candidate list is empty makes
\* get_lat_lng raise ModelRetry('Could not find the location') and return no
\* coordinates; a non-empty list never makes it raise ModelRetry, and it
\* returns the first candidate's latitude and longitude (it returns nothing
\* else: a first candidate that has none ends the call with a KeyError).
C6_Geocoding ==
    (Finished("get_lat_lng") /\ deps.geo_api_key # None /\ Answered2xx) =>
        LET data == call.response.body
        IN  /\ Len(data) = 0 =>
                call.outcome =
                    [kind |-> "ModelRetry",
                     message |-> "Could not find the location"]
            /\ Len(data) > 0 =>
                /\ call.outcome.kind # "ModelRetry"
                /\ {"lat", "lon"} \subseteq DOMAIN data[1] =>
                    call.outcome =
                        [kind |-> "return",
                         value |-> [lat |-> data[1].lat, lng |-> data[1].lon]]
                /\ call.outcome.kind = "return" =>
                    {"lat", "lon"} \subseteq DOMAIN data[1]

\* two candidates were found and the coordinates of the first were returned
C6_Witness ==
    /\ Finished("get_lat_lng")
    /\ deps.geo_api_key # None
    /\ Answered2xx
    /\ call.response.body = <<Tokyo, Paris>>
    /\ call.outcome.kind = "return"
    /\ call.outcome.value.lat = 357

----------------------------------------------------------------------------
(* C7 *)

\* C7: with an air-quality key, a 2xx answer with an empty body makes get_aqi
\* raise the same ModelRetry('Could not find the location') as geocoding and
\* return no value; any other body never makes it raise ModelRetry, and it
\* returns the index at data.aqi (it returns nothing else: a body that has
\* none ends the call with a KeyError).
C7_AirQuality ==
    (Finished("get_aqi") /\ deps.aqi_index_key # None /\ Answered2xx) =>
        LET data == call.response.body
            nested == "data" \in DOMAIN data /\ "aqi" \in DOMAIN data.data
        IN  /\ DOMAIN data = {} =>
                call.outcome =
                    [kind |-> "ModelRetry",
                     message |-> "Could not find the location"]
            /\ DOMAIN data # {} =>
                /\ call.outcome.kind # "ModelRetry"
                /\ nested =>
                    call.outcome =
                        [kind |-> "return",
                         value |-> [AirQualityIndex |-> data.data.aqi]]
                /\ call.outcome.kind = "return" => nested

\* the air-quality service answered 200 with an empty body
C7_Witness ==
    /\ Finished("get_aqi")
    /\ deps.aqi_index_key # None
    /\ Answered2xx
    /\ DOMAIN call.response.body = {}
    /\ call.outcome.kind = "ModelRetry"

----------------------------------------------------------------------------
(* C8 *)

\* the table of weather codes as the specification lists it
ListedDescriptions ==
    {<<1000, "Clear, Sunny">>, <<1100, "Mostly Clear">>,
     <<1101, "Partly Cloudy">>, <<1102, "Mostly Cloudy">>,
     <<1001, "Cloudy">>, <<2000, "Fog">>, <<2100, "Light Fog">>,
     <<4000, "Drizzle">>, <<4001, "Rain">>, <<4200, "Light Rain">>,
     <<4201, "Heavy Rain">>, <<5000, "Snow">>, <<5001, "Flurries">>,
     <<5100, "Light Snow">>, <<5101, "Heavy Snow">>,
     <<6000, "Freezing Drizzle">>, <<6001, "Freezing Rain">>,
     <<6200, "Light Freezing Rain">>, <<6201, "Heavy Freezing Rain">>,
     <<7000, "Ice Pellets">>, <<7101, "Heavy Ice Pellets">>,
     <<7102, "Light Ice Pellets">>, <<8000, "Thunderstorm">>}

ListedCodes == {e[1] : e \in ListedDescriptions}

\* get_weather, with its key, has returned for a 2xx answer, and its
\* description is the listed string of the answer's weather code, or
\* "Unknown" for a code that is not listed
DescriptionAsListed ==
    (Finished("get_weather") /\ deps.weather_api_key # None
        /\ call.outcome.kind = "return") =>
        LET code == call.response.body.data.values.weatherCode
        IN  /\ \A e \in ListedDescriptions :
                code = e[1] => call.outcome.value.description = e[2]
            /\ code \notin ListedCodes =>
                call.outcome.value.description = "Unknown"

\* C8 as stated: the description get_weather returns is the listed string of
\* the weather code, "Unknown" for every other code, and the lookup table has
\* 22 entries.
C8_Original ==
    /\ DescriptionAsListed
    /\ (Finished("get_weather") /\ deps.weather_api_key # None
            /\ call.outcome.kind = "return") =>
        Cardinality(DOMAIN code_lookup) = 22

\* C8, amended: the description get_weather returns is the listed string of
\* the weather code, "Unknown" for every other code, and the lookup table has
\* the 23 entries the specification lists (not 22).
C8_Amended ==
    /\ DescriptionAsListed
    /\ Cardinality(ListedDescriptions) = 23
    /\ DOMAIN code_lookup = ListedCodes
    /\ Cardinality(DOMAIN code_lookup) = 23

\* the weather service reported code 7101 and get_weather described it
C8_Witness ==
    /\ Finished("get_weather")
    /\ deps.weather_api_key # None
    /\ call.outcome.kind = "return"
    /\ call.response.body.data.values.weatherCode = 7101
    /\ call.outcome.value.description = "Heavy Ice Pellets"

----------------------------------------------------------------------------
(* C3 *)

\* C3: a non-2xx status on the request of any of the three tools is fatal:
\* the tool raises HTTPStatusError having issued that one request, never
\* ModelRetry; the agent answers the error by aborting the run, without
\* counting a retry; and an aborted run starts no tool call and sends no
\* request.
C3_FatalHttpError ==
    /\ [](\A t \in Tools :
            (Finished(t) /\ call.response.status # 0
                /\ ~is_success(call.response.status)) =>
                /\ call.outcome.kind = "HTTPStatusError"
                /\ call.requests = 1)
    /\ [](cause = "HTTPStatusError" => agent = "failed")
    /\ [][(call.state = "finished" /\ call.outcome.kind = "HTTPStatusError")
            => (agent' = "failed" /\ cause' = "HTTPStatusError"
                /\ retry' = retry /\ calls' = calls /\ sent' = sent)]_vars
    /\ [][agent = "failed"
            => (agent' = "failed" /\ calls' = calls /\ sent' = sent
                /\ call' = call)]_vars

\* a run was aborted by an HTTP error and the error has left main
C3_Witness ==
    /\ cause = "HTTPStatusError"
    /\ agent = "failed"
    /\ pc = "raised"
    /\ sent = 1

----------------------------------------------------------------------------
(* C2 *)

\* C2: a tool that raises ModelRetry is invoked again at most 2 times; when
\* it raises ModelRetry once more after that, the run aborts; an aborted run
\* starts no further tool call and main prints no structured output.
C2_BoundedRetry ==
    /\ [](\A t \in Tools : reinvoked[t] <= 2 /\ reinvoked[t] <= retry[t])
    /\ [](cause = "retries" =>
            /\ agent = "failed"
            /\ printed = 0
            /\ \E t \in Tools : reinvoked[t] = 2)
    /\ [][(call.state = "finished" /\ call.outcome.kind = "ModelRetry")
            => IF reinvoked[call.tool] = 2
               THEN agent' = "failed" /\ cause' = "retries"
               ELSE agent' = "thinking"]_vars
    /\ [][agent = "failed"
            => (agent' = "failed" /\ calls' = calls /\ printed' = printed)]_vars

\* a tool used up its retries and the failure has left main
C2_Witness ==
    /\ cause = "retries"
    /\ pc = "raised"
    /\ retry["get_lat_lng"] = 3

----------------------------------------------------------------------------
(* C4 *)

\* C4: the HTTP client is opened exactly once per program run; it is closed
\* when main has ended, by returning or by an exception; and every request
\* of a tool is issued, and awaited, on the open client.
C4_ScopedClient ==
    /\ acquired <= 1
    /\ pc # "start" => acquired = 1
    /\ Terminated => client = "closed"
    /\ ~misuse
    /\ call.state = "awaiting" => client = "open"
    /\ client = "closed" => Terminated

\* the run aborted and main has ended with the client closed
C4_Witness ==
    /\ pc = "raised"
    /\ agent = "failed"
    /\ client = "closed"
    /\ sent > 0

----------------------------------------------------------------------------
(* C10 *)

\* C10: main invokes weather_agent.run exactly once and recovers from
\* nothing: the result is printed only after the run has returned one, and
\* after an aborted run main prints nothing, does not run the agent again,
\* and ends with the exception.
C10_OneShot ==
    /\ [](runs <= 1 /\ (pc # "start" => runs = 1))
    /\ [](printed <= 1 /\ (printed = 1 => agent = "done"))
    /\ [](pc \in {"printed", "returned"} => (agent = "done" /\ printed = 1))
    /\ [](agent = "failed" => printed = 0)
    /\ []((Terminated /\ agent = "failed") => pc = "raised")
    /\ [][agent = "failed"
            => (runs' = runs /\ printed' = printed /\ agent' = "failed"
                /\ pc' \in {"run", "raised"})]_vars

\* the model gave up, the run aborted, and main ended without printing
C10_Witness ==
    /\ pc = "raised"
    /\ cause = "model"
    /\ printed = 0
    /\ runs = 1

====
